---- MODULE Spec2Model ----
(***************************************************************************)
(* A model of pit.c (PIT - Phono in Terminal): the colour quantizers, the  *)
(* ANSI escape-code cache, the geometric transforms, the bilinear          *)
(* resampler, the display sizer, the frame renderer and the pipeline in    *)
(* main.                                                                   *)
(*                                                                         *)
(* Text is a sequence of one-byte tokens ("ESC" is byte 0x1B, "LF" is the  *)
(* newline), so Len(text) is the number of bytes the C code writes.        *)
(* A NULL pointer to text is the empty sequence.                           *)
(***************************************************************************)
EXTENDS Integers, Sequences, FiniteSets, TLC

VARIABLES
    s_detected_color_mode,  \* static ColorMode s_detected_color_mode
    s_ansi_cache_16,        \* static char* s_ansi_cache_16[16]: its NULL entries
    s_ansi_cache_256,       \* static char* s_ansi_cache_256[256]: its NULL entries
    env,                    \* the process environment read by getenv
    s_term_width,           \* static int s_term_width
    s_term_height,          \* static int s_term_height
    tty,                    \* what the terminal-size queries of the OS answer
    quant,                  \* the last call of rgb_to_256 and rgb_to_16
    fmt,                    \* the last call of format_ansi_color_code
    orig,                   \* the pixel buffer the transforms started from
    image,                  \* the pixel buffer the transforms have produced
    steps,                  \* the transforms applied to orig, in order
    xf,                     \* the last call of a geometric transform
    rn,                     \* the call of render_image in progress
    rs,                     \* the last call of resize_image_bilinear
    ds,                     \* the last call of calculate_display_dimensions
    mn                      \* the run of main: its locals and its position

globalVars == <<s_detected_color_mode, s_ansi_cache_16, s_ansi_cache_256, env, s_term_width, s_term_height, tty>>
termVars == <<s_term_width, s_term_height, tty>>
quantVars == <<quant, fmt>>
xformVars == <<orig, image, steps, xf>>

vars == <<globalVars, quantVars, xformVars, rn, rs, ds, mn>>

\* what the actions of each component leave alone
notQuant == <<xformVars, rn, rs, ds, mn>>
notXform == <<globalVars, quantVars, rn, rs, ds, mn>>
notRender == <<quantVars, xformVars, rs, ds, mn>>
notResize == <<globalVars, quantVars, xformVars, rn, ds, mn>>
notDisplay == <<globalVars, quantVars, xformVars, rn, rs, mn>>

----------------------------------------------------------------------------
(* Small helpers *)

NULL == <<>>

Min(a, b) == IF a < b THEN a ELSE b

\* C integer division and (int) conversion truncate toward zero; d > 0.
TruncDiv(n, d) == IF n >= 0 THEN n \div d ELSE -((-n) \div d)

ESC == "ESC"
LF == "LF"

DigitChars == <<"0", "1", "2", "3", "4", "5", "6", "7", "8", "9">>

RECURSIVE Digits(_)
\* printf's %d of a non-negative int
Digits(n) == IF n < 10 THEN <<DigitChars[n + 1]>>
             ELSE Digits(n \div 10) \o <<DigitChars[(n % 10) + 1]>>

----------------------------------------------------------------------------
(* ColorMode *)

COLOR_MODE_UNKNOWN == "COLOR_MODE_UNKNOWN"
COLOR_MODE_16 == "COLOR_MODE_16"
COLOR_MODE_256 == "COLOR_MODE_256"
COLOR_MODE_TRUE_COLOR == "COLOR_MODE_TRUE_COLOR"

ColorMode == {COLOR_MODE_UNKNOWN, COLOR_MODE_16, COLOR_MODE_256, COLOR_MODE_TRUE_COLOR}

----------------------------------------------------------------------------
(* detect_color_support: the environment is a record of the variables the  *)
(* function reads; "" stands for an unset variable (getenv returns NULL).  *)
(* strstr is modelled on the finite set of values the model draws from.    *)

Unset == ""

\* the needles of strstr that each modelled value contains
Needles(s) ==
    CASE s = "truecolor" -> {"truecolor"}
      [] s = "24bit" -> {"24bit"}
      [] s = "iTerm.app" -> {"iTerm"}
      [] s = "xterm-256color" -> {"xterm-256color", "xterm"}
      [] s = "screen-256color" -> {"screen-256color", "screen"}
      [] s = "linux-16color" -> {"linux-16color", "linux"}
      [] s = "xterm" -> {"xterm"}
      [] s = "vt100" -> {"vt100"}
      [] s = "linux" -> {"linux"}
      [] OTHER -> {}

strstr(hay, needle) == needle \in Needles(hay)

terms_256 == {"xterm-256color", "screen-256color", "tmux-256color",
              "rxvt-unicode-256color", "linux-16color", "eterm-256color"}

terms_16 == {"xterm", "screen", "vt100", "ansi", "linux"}

\* a detection without the conservative fallback at its end
detect_color_support_NoFallback(e) ==
    IF e.COLORTERM # Unset /\ (strstr(e.COLORTERM, "truecolor") \/ strstr(e.COLORTERM, "24bit"))
    THEN COLOR_MODE_TRUE_COLOR
    ELSE IF e.KONSOLE_PROFILE_NAME # Unset \/ e.KONSOLE_VERSION # Unset
    THEN COLOR_MODE_TRUE_COLOR
    ELSE IF e.TERM_PROGRAM # Unset /\ strstr(e.TERM_PROGRAM, "iTerm")
    THEN COLOR_MODE_TRUE_COLOR
    ELSE IF e.TERM # Unset /\ (\E t \in terms_256 : strstr(e.TERM, t))
    THEN COLOR_MODE_256
    ELSE IF e.TERM # Unset /\ (\E t \in terms_16 : strstr(e.TERM, t))
    THEN COLOR_MODE_16
    ELSE COLOR_MODE_UNKNOWN

detect_color_support(e) ==
    IF e.COLORTERM # Unset /\ (strstr(e.COLORTERM, "truecolor") \/ strstr(e.COLORTERM, "24bit"))
    THEN COLOR_MODE_TRUE_COLOR
    ELSE IF e.KONSOLE_PROFILE_NAME # Unset \/ e.KONSOLE_VERSION # Unset
    THEN COLOR_MODE_TRUE_COLOR
    ELSE IF e.TERM_PROGRAM # Unset /\ strstr(e.TERM_PROGRAM, "iTerm")
    THEN COLOR_MODE_TRUE_COLOR
    ELSE IF e.TERM # Unset /\ (\E t \in terms_256 : strstr(e.TERM, t))
    THEN COLOR_MODE_256
    ELSE IF e.TERM # Unset /\ (\E t \in terms_16 : strstr(e.TERM, t))
    THEN COLOR_MODE_16
    ELSE COLOR_MODE_16

MkEnv(ct, kp, kv, tp, t) ==
    [COLORTERM |-> ct, KONSOLE_PROFILE_NAME |-> kp, KONSOLE_VERSION |-> kv,
     TERM_PROGRAM |-> tp, TERM |-> t]

\* the environments the model draws from: one or more per branch of the function
Envs == {
    MkEnv("truecolor", Unset, Unset, Unset, "xterm-256color"),
    MkEnv("24bit", Unset, Unset, Unset, Unset),
    MkEnv("yes", Unset, Unset, Unset, "xterm"),
    MkEnv(Unset, "Shell", Unset, Unset, "xterm"),
    MkEnv(Unset, Unset, "210800", Unset, "xterm-256color"),
    MkEnv(Unset, Unset, Unset, "iTerm.app", "xterm"),
    MkEnv(Unset, Unset, Unset, "Apple_Terminal", "xterm-256color"),
    MkEnv(Unset, Unset, Unset, Unset, "screen-256color"),
    MkEnv(Unset, Unset, Unset, Unset, "linux-16color"),
    MkEnv(Unset, Unset, Unset, Unset, "vt100"),
    MkEnv(Unset, Unset, Unset, Unset, "linux"),
    MkEnv(Unset, Unset, Unset, Unset, "dumb"),
    MkEnv(Unset, Unset, Unset, Unset, Unset) }

----------------------------------------------------------------------------
(* ColorQuantizer *)

\* unsigned char
Byte == 0 .. 255

\* a quantizer whose cube levels are channel * 6 / 255
rgb_to_256_Div255(r, g, b) ==
    IF r = g /\ g = b
    THEN IF r < 3 THEN 16
         ELSE IF r > 252 THEN 231
         ELSE 232 + (r - 3) \div 10
    ELSE LET ri == Min(5, (r * 6) \div 255)
             gi == Min(5, (g * 6) \div 255)
             bi == Min(5, (b * 6) \div 255)
         IN  16 + (ri * 36) + (gi * 6) + bi

rgb_to_256(r, g, b) ==
    IF r = g /\ g = b
    THEN IF r < 3 THEN 16
         ELSE IF r > 252 THEN 231
         ELSE 232 + (r - 3) \div 10
    ELSE LET ri == Min(5, (r * 6) \div 256)
             gi == Min(5, (g * 6) \div 256)
             bi == Min(5, (b * 6) \div 256)
         IN  16 + (ri * 36) + (gi * 6) + bi

\* a quantizer whose bits are set from 128 on
rgb_to_16_From128(r, g, b) ==
    LET intensity == IF r >= 128 \/ g >= 128 \/ b >= 128 THEN 8 ELSE 0
        r_bit == IF r >= 128 THEN 4 ELSE 0
        g_bit == IF g >= 128 THEN 2 ELSE 0
        b_bit == IF b >= 128 THEN 1 ELSE 0
    IN  intensity + r_bit + g_bit + b_bit

rgb_to_16(r, g, b) ==
    LET intensity == IF r > 128 \/ g > 128 \/ b > 128 THEN 8 ELSE 0
        r_bit == IF r > 128 THEN 4 ELSE 0
        g_bit == IF g > 128 THEN 2 ELSE 0
        b_bit == IF b > 128 THEN 1 ELSE 0
    IN  intensity + r_bit + g_bit + b_bit

----------------------------------------------------------------------------
(* EscapeCodeCache *)

CacheIdx16 == 0 .. 15
CacheIdx256 == 0 .. 255

\* sprintf(s_ansi_cache_16[i], "\033[4%dm", i) / "\033[10%dm", i - 8
CacheText16(i) ==
    IF i < 8 THEN <<ESC, "[", "4">> \o Digits(i) \o <<"m">>
    ELSE <<ESC, "[", "1", "0">> \o Digits(i - 8) \o <<"m">>

\* sprintf(s_ansi_cache_256[i], "\033[48;5;%dm", i)
CacheText256(i) == <<ESC, "[", "4", "8", ";", "5", ";">> \o Digits(i) \o <<"m">>

\* A cache array is modelled by the set of its indices whose entry is NULL:
\* init_ansi_cache is the only writer of the other entries, and entry i then
\* holds the text it printed for i.
\* static char* s_ansi_cache_16[16] = {NULL}, s_ansi_cache_256[256] = {NULL}
EmptyCache16 == CacheIdx16
EmptyCache256 == CacheIdx256

\* s_ansi_cache_16[i], s_ansi_cache_256[i]
Entry16(nulls, i) == IF i \in nulls THEN NULL ELSE CacheText16(i)
Entry256(nulls, i) == IF i \in nulls THEN NULL ELSE CacheText256(i)

\* init_ansi_cache, with the sets of entries whose malloc(16) returns NULL
init_ansi_cache_16(failed) == {i \in CacheIdx16 : i \in failed}

init_ansi_cache_256(failed) == {i \in CacheIdx256 : i \in failed}

\* the malloc failures the model draws from
FailSets16 == {{}, CacheIdx16, {0, 9}}
FailSets256 == {{}, CacheIdx256, {16, 200, 255}}

\* What a read past the end of a cache array can yield: the bytes there are
\* not the program's to read, so the char* is NULL or points at any text.
WildPointers == {NULL, <<"?">>, [i \in 1 .. 40 |-> "?"]}

----------------------------------------------------------------------------
(* format_ansi_color_code.  The result records the text put into buf, the  *)
(* number of bytes stored (the text, and the NUL sprintf adds), and the    *)
(* cache array and index read.  wild is what an out-of-bounds cache read   *)
(* yields.                                                                 *)

FormatCached(cached, fallback, arr, idx) ==
    IF cached # NULL
    THEN [text |-> cached \o <<" ">>, stored |-> Len(cached) + 1, arr |-> arr, idx |-> idx]
    ELSE [text |-> fallback, stored |-> Len(fallback) + 1, arr |-> arr, idx |-> idx]

format_ansi_color_code(r, g, b, mode, cache16, cache256, wild) ==
    CASE mode = COLOR_MODE_TRUE_COLOR ->
            LET t == <<ESC, "[", "4", "8", ";", "2", ";">> \o Digits(r) \o <<";">>
                     \o Digits(g) \o <<";">> \o Digits(b) \o <<"m", " ">>
            IN  [text |-> t, stored |-> Len(t) + 1, arr |-> "none", idx |-> 0]
      [] mode = COLOR_MODE_256 ->
            LET color_code == rgb_to_256(r, g, b)
                cached == IF color_code \in CacheIdx256 THEN Entry256(cache256, color_code) ELSE wild
                fallback == <<ESC, "[", "4", "8", ";", "5", ";">> \o Digits(color_code) \o <<"m", " ">>
            IN  FormatCached(cached, fallback, "s_ansi_cache_256", color_code)
      [] mode = COLOR_MODE_16 ->
            LET color_code == rgb_to_16(r, g, b)
                cached == IF color_code \in CacheIdx16 THEN Entry16(cache16, color_code) ELSE wild
                fallback == <<ESC, "[", "4">> \o Digits(color_code) \o <<"m", " ">>
            IN  FormatCached(cached, fallback, "s_ansi_cache_16", color_code)
      [] OTHER -> [text |-> <<" ">>, stored |-> 1, arr |-> "none", idx |-> 0]

----------------------------------------------------------------------------
(* The quantizer and the escape-code cache as a state machine: the caches  *)
(* are initialised and freed, and the pure functions are applied to inputs *)
(* drawn from bounded sets.                                                *)

\* channel values on both sides of every threshold of the two quantizers
Levels == {0, 42, 43, 85, 86, 127, 128, 129, 170, 171, 213, 214, 255}

\* every grey, and the non-grey triples over Levels
QuantInputs == {<<v, v, v>> : v \in Byte} \cup (Levels \X Levels \X Levels)

Idle == [op |-> "none"]

\* a terminal whose ioctl answers 80 columns, 24 rows
\* what getenv and the tput pipes answer when they give no number
NoEnv == <<"unset">>
NoPipe == <<"nopipe">>
NoParse == <<"noparse">>
Num(n) == <<"int", n>>
IsNum(a) == a[1] = "int"

Tty80x24 == [ioctl_ok |-> TRUE, ws_col |-> 80, ws_row |-> 24, COLUMNS |-> NoEnv,
             LINES |-> NoEnv, tput_cols |-> NoPipe, tput_lines |-> NoPipe]

InitTerm ==
    /\ s_term_width = 0
    /\ s_term_height = 0
    /\ tty = Tty80x24

InitGlobals ==
    /\ s_detected_color_mode = COLOR_MODE_UNKNOWN
    /\ s_ansi_cache_16 = EmptyCache16
    /\ s_ansi_cache_256 = EmptyCache256
    /\ env \in Envs
    /\ InitTerm

QuantIdle == quant = Idle /\ fmt = Idle

NoImage == [w |-> 0, h |-> 0, c |-> 0, data |-> <<>>]

XformIdle == orig = NoImage /\ image = NoImage /\ steps = <<>> /\ xf = Idle

OthersIdle == rn = Idle /\ rs = Idle /\ ds = Idle /\ mn = Idle

InitQuant ==
    /\ InitGlobals
    /\ env = MkEnv(Unset, Unset, Unset, Unset, Unset)
    /\ QuantIdle
    /\ XformIdle
    /\ OthersIdle

\* no call is in progress: the next one can be made
AtRest == quant = Idle /\ fmt = Idle

InitAnsiCache ==
    /\ AtRest
    /\ \E f16 \in FailSets16, f256 \in FailSets256 :
          /\ s_ansi_cache_16' = init_ansi_cache_16(f16)
          /\ s_ansi_cache_256' = init_ansi_cache_256(f256)
    /\ UNCHANGED <<s_detected_color_mode, env, termVars, quantVars, notQuant>>

FreeAnsiCache ==
    /\ AtRest
    /\ s_ansi_cache_16' = EmptyCache16
    /\ s_ansi_cache_256' = EmptyCache256
    /\ UNCHANGED <<s_detected_color_mode, env, termVars, quantVars, notQuant>>

Quantize ==
    /\ AtRest
    /\ \E in \in QuantInputs :
          quant' = [op |-> "rgb", r |-> in[1], g |-> in[2], b |-> in[3],
                    code256 |-> rgb_to_256(in[1], in[2], in[3]),
                    code16 |-> rgb_to_16(in[1], in[2], in[3])]
    /\ UNCHANGED <<globalVars, fmt, notQuant>>

FormatCall ==
    /\ AtRest
    /\ \E in \in QuantInputs, mode \in ColorMode, wild \in WildPointers :
          LET res == format_ansi_color_code(in[1], in[2], in[3], mode,
                                            s_ansi_cache_16, s_ansi_cache_256, wild)
          IN  fmt' = [op |-> "format", r |-> in[1], g |-> in[2], b |-> in[3],
                      mode |-> mode, text |-> res.text, stored |-> res.stored,
                      arr |-> res.arr, idx |-> res.idx]
    /\ UNCHANGED <<globalVars, quant, notQuant>>

\* the call returns; its record is dropped
Return ==
    /\ ~AtRest
    /\ quant' = Idle
    /\ fmt' = Idle
    /\ UNCHANGED <<globalVars, notQuant>>

NextQuant == InitAnsiCache \/ FreeAnsiCache \/ Quantize \/ FormatCall \/ Return

SpecQuant == InitQuant /\ [][NextQuant]_vars

----------------------------------------------------------------------------
(* Claims about the quantizer *)

\* C3: for r = g = b, rgb_to_256 returns 16 when r < 3, 231 when r > 252, and
\* otherwise a value in [232,255] that does not decrease as r grows.
C3_GrayRamp ==
    (quant.op = "rgb" /\ quant.r = quant.g /\ quant.g = quant.b) =>
        IF quant.r < 3 THEN quant.code256 = 16
        ELSE IF quant.r > 252 THEN quant.code256 = 231
        ELSE /\ quant.code256 \in 232 .. 255
             /\ \A r2 \in 3 .. quant.r : rgb_to_256(r2, r2, r2) <= quant.code256

\* C4: rgb_to_256 returns an index in [16,255], rgb_to_16 one in [0,15], and
\* every cache read of format_ansi_color_code is inside its array.
C4_IndicesInBounds ==
    /\ quant.op = "rgb" => (quant.code256 \in 16 .. 255 /\ quant.code16 \in 0 .. 15)
    /\ fmt.op = "format" =>
          /\ fmt.arr = "s_ansi_cache_256" => fmt.idx \in CacheIdx256
          /\ fmt.arr = "s_ansi_cache_16" => fmt.idx \in CacheIdx16


\* the level k of 0..5 with k * 256 <= channel * 6 < (k + 1) * 256
CubeLevel(ch) == CHOOSE k \in 0 .. 5 : k * 256 <= ch * 6 /\ ch * 6 < (k + 1) * 256

NonGray == quant.op = "rgb" /\ ~(quant.r = quant.g /\ quant.g = quant.b)

\* C14: for every (r,g,b) that is not grayscale, rgb_to_256 returns
\* 16 + 36*ri + 6*gi + bi with ri, gi, bi each min(5, channel*6/256), a value
\* in [16,231], and the same inputs always give the same result.
C14_ColorCube ==
    NonGray =>
        /\ quant.code256 = 16 + 36 * CubeLevel(quant.r) + 6 * CubeLevel(quant.g)
                               + CubeLevel(quant.b)
        /\ quant.code256 \in 16 .. 231
        /\ quant.code256 = rgb_to_256(quant.r, quant.g, quant.b)

\* a colour at the edges of three levels: 213 is level 4, 42 level 0, 43 level 1
C14_Witness ==
    /\ NonGray
    /\ quant.r = 213 /\ quant.g = 42 /\ quant.b = 43
    /\ quant.code256 = 161

Bit(n, k) == (n \div k) % 2 = 1

\* C15: for every (r,g,b), rgb_to_16 returns an index in [0,15] equal to 8 if
\* any channel > 128 (else 0), plus 4 if r > 128, plus 2 if g > 128, plus 1
\* if b > 128.
C15_SixteenColorBits ==
    quant.op = "rgb" =>
        /\ quant.code16 \in 0 .. 15
        /\ Bit(quant.code16, 8) <=> (quant.r > 128 \/ quant.g > 128 \/ quant.b > 128)
        /\ Bit(quant.code16, 4) <=> quant.r > 128
        /\ Bit(quant.code16, 2) <=> quant.g > 128
        /\ Bit(quant.code16, 1) <=> quant.b > 128

\* red just above the threshold, green on it, blue below: bright red, 12
C15_Witness ==
    /\ quant.op = "rgb"
    /\ quant.r = 129 /\ quant.g = 128 /\ quant.b = 0
    /\ quant.code16 = 12

\* the call read an entry of one of the two cache arrays, inside the array
ReadEntry16 == fmt.op = "format" /\ fmt.arr = "s_ansi_cache_16" /\ fmt.idx \in CacheIdx16
ReadEntry256 == fmt.op = "format" /\ fmt.arr = "s_ansi_cache_256" /\ fmt.idx \in CacheIdx256

\* C18: for every palette index that can be requested and for both palette
\* modes, the text format_ansi_color_code emits when the cache entry is absent
\* is the text it emits when the entry is present: ESC[4Nm for N < 8 and
\* ESC[10(N-8)m for N >= 8 in 16-colour mode, ESC[48;5;Nm in 256-colour mode,
\* each followed by one space.
C18_FallbackSameText ==
    /\ ReadEntry16 => fmt.text = CacheText16(fmt.idx) \o <<" ">>
    /\ ReadEntry256 => fmt.text = CacheText256(fmt.idx) \o <<" ">>

----------------------------------------------------------------------------
(* GeometryTransforms.  A pixel buffer is a record of width, height,       *)
(* channel count and the samples, a function on 0 .. w*h*c-1 as in C.      *)
(* Each transform returns the new buffer with the sets of input indices    *)
(* it read and output indices it wrote.  g is the byte a read outside the  *)
(* input buffer yields.                                                    *)

Samples(w, h, c) == 0 .. (w * h * c - 1)

\* img_data[idx]
ReadAt(data, idx, g) == IF idx \in DOMAIN data THEN data[idx] ELSE g

\* the loop nest "for y < h, for x < w, for channel < c"
Loop(w, h, c) == (0 .. h - 1) \X (0 .. w - 1) \X (0 .. c - 1)

\* the (y, x, channel) whose output index (y*w + x)*c + channel is i
LoopAt(i, w, c) == <<i \div (w * c), (i \div c) % w, i % c>>

OutIdx(p, w, c) == (p[1] * w + p[2]) * c + p[3]

\* the buffer a loop nest over (w, h, c) stores, src[p] being the input index
\* read for the output position p
Transformed(w, h, c, src, data, g) ==
    [w |-> w, h |-> h, c |-> c,
     data |-> [i \in Samples(w, h, c) |-> ReadAt(data, src[LoopAt(i, w, c)], g)],
     reads |-> {src[p] : p \in Loop(w, h, c)},
     writes |-> {OutIdx(p, w, c) : p \in Loop(w, h, c)}]

\* a flip that takes each pixel from the column to its right
flip_image_horizontal_Shift(data, w, h, c, g) ==
    LET src == [p \in Loop(w, h, c) |-> (p[1] * w + ((p[2] + 1) % w)) * c + p[3]]
    IN  Transformed(w, h, c, src, data, g)

flip_image_horizontal(data, w, h, c, g) ==
    LET src == [p \in Loop(w, h, c) |-> (p[1] * w + (w - 1 - p[2])) * c + p[3]]
    IN  Transformed(w, h, c, src, data, g)

flip_image_vertical(data, w, h, c, g) ==
    LET src == [p \in Loop(w, h, c) |-> ((h - 1 - p[1]) * w + p[2]) * c + p[3]]
    IN  Transformed(w, h, c, src, data, g)

rotate_image_90_cw(data, w, h, c, g) ==
    LET original_w == w
        original_h == h
        new_w == original_h
        new_h == original_w
        \* ox = y, oy = original_w - 1 - x
        src == [p \in Loop(new_w, new_h, c) |->
                  ((original_w - 1 - p[2]) * original_w + p[1]) * c + p[3]]
    IN  Transformed(new_w, new_h, c, src, data, g)

rotate_image_180(data, w, h, c, g) ==
    LET src == [p \in Loop(w, h, c) |-> ((h - 1 - p[1]) * w + (w - 1 - p[2])) * c + p[3]]
    IN  Transformed(w, h, c, src, data, g)

----------------------------------------------------------------------------
(* The transforms as a state machine: a buffer is drawn, and transforms    *)
(* are applied to it one after the other, each to the result of the last.  *)

\* the largest width and height of a drawn buffer
MaxDim == 3
\* the longest chain of transforms
MaxSteps == 4

Channels == 1 .. 4

\* the first sample of a drawn buffer; sample i is (seed + i) % 256, so the
\* samples of a buffer are pairwise different
Seeds == {1, 100}

\* what a read outside the input buffer yields, when it does not fault
GarbageBytes == {0, 255}

MkImage(w, h, c, seed) ==
    [w |-> w, h |-> h, c |-> c, data |-> [i \in Samples(w, h, c) |-> (seed + i) % 256]]

Images == {MkImage(w, h, c, seed) : w \in 1 .. MaxDim, h \in 1 .. MaxDim,
                                    c \in Channels, seed \in Seeds}

InitXform ==
    /\ InitGlobals
    /\ env = MkEnv(Unset, Unset, Unset, Unset, Unset)
    /\ QuantIdle
    /\ orig \in Images
    /\ image = orig
    /\ steps = <<>>
    /\ xf = Idle
    /\ OthersIdle

\* one call of a transform on the current buffer: the result replaces it,
\* unless a read outside the buffer faults and ends the process
Apply(name, res, fault) ==
    /\ xf' = [op |-> name, w |-> image.w, h |-> image.h, c |-> image.c,
              reads |-> res.reads, writes |-> res.writes,
              new_w |-> res.w, new_h |-> res.h,
              fault |-> fault /\ ~(res.reads \subseteq DOMAIN image.data)]
    /\ IF xf'.fault
       THEN UNCHANGED <<image, steps>>
       ELSE /\ image' = [w |-> res.w, h |-> res.h, c |-> res.c, data |-> res.data]
            /\ steps' = Append(steps, name)
    /\ UNCHANGED <<orig, notXform>>

Faulted == IF xf = Idle THEN FALSE ELSE xf.fault

Running == Len(steps) < MaxSteps /\ ~Faulted

FlipH ==
    /\ Running
    /\ \E g \in GarbageBytes, fault \in BOOLEAN :
          Apply("flip_image_horizontal",
                flip_image_horizontal(image.data, image.w, image.h, image.c, g), fault)

FlipV ==
    /\ Running
    /\ \E g \in GarbageBytes, fault \in BOOLEAN :
          Apply("flip_image_vertical",
                flip_image_vertical(image.data, image.w, image.h, image.c, g), fault)

Rotate90 ==
    /\ Running
    /\ \E g \in GarbageBytes, fault \in BOOLEAN :
          Apply("rotate_image_90_cw",
                rotate_image_90_cw(image.data, image.w, image.h, image.c, g), fault)

Rotate180 ==
    /\ Running
    /\ \E g \in GarbageBytes, fault \in BOOLEAN :
          Apply("rotate_image_180",
                rotate_image_180(image.data, image.w, image.h, image.c, g), fault)

NextXform == FlipH \/ FlipV \/ Rotate90 \/ Rotate180

SpecXform == InitXform /\ [][NextXform]_vars

----------------------------------------------------------------------------
(* Claims about the transforms *)

\* C1: rotate_image_90_cw reads only indices in [0, w*h*c) of its input,
\* writes every one of the h*w*c output samples, and reports width h, height w.
C1_Rotate90Total ==
    (xf # Idle /\ xf.op = "rotate_image_90_cw") =>
        /\ xf.reads \subseteq Samples(xf.w, xf.h, xf.c)
        /\ ~xf.fault
        /\ xf.writes = Samples(xf.h, xf.w, xf.c)
        /\ xf.new_w = xf.h
        /\ xf.new_h = xf.w

Rot4 == <<"rotate_image_90_cw", "rotate_image_90_cw", "rotate_image_90_cw", "rotate_image_90_cw">>
Rot2 == <<"rotate_image_90_cw", "rotate_image_90_cw">>

\* C5: four applications of rotate_image_90_cw give back the original width,
\* height and samples, for every image.
C5_Rotate90FourTimes == steps = Rot4 => image = orig

\* C6: rotate_image_180 gives the dimensions and samples of two applications
\* of rotate_image_90_cw, for every image.
C6_Rotate180IsTwice90 ==
    steps = Rot2 =>
        LET r == rotate_image_180(orig.data, orig.w, orig.h, orig.c, 0)
        IN  image = [w |-> r.w, h |-> r.h, c |-> r.c, data |-> r.data]


FlipH2 == <<"flip_image_horizontal", "flip_image_horizontal">>
FlipV2 == <<"flip_image_vertical", "flip_image_vertical">>

\* C12: flip_image_horizontal and flip_image_vertical are involutions with
\* unchanged dimensions: for every image, flipping twice along the same axis
\* yields a buffer pixel-identical to the input.
C12_FlipsAreInvolutions ==
    steps \in {FlipH2, FlipV2, FlipH2 \o FlipV2} => image = orig

\* an image of at least two columns and two rows was flipped twice along
\* each axis and is the original again
C12_Witness ==
    /\ steps = FlipH2 \o FlipV2
    /\ orig.w >= 2
    /\ orig.h >= 2
    /\ image = orig

----------------------------------------------------------------------------
(* FrameRenderer: render_image, one step per pixel and one per end of row. *)
(* rn records the arguments, the size of the malloc'ed line buffer, the    *)
(* loop position, the text put into the buffer for the current row, the    *)
(* highest count of buffer bytes stored by any write so far (hi), the      *)
(* img_data indices read for the last pixel, and the lines given to        *)
(* fwrite.                                                                 *)

\* the switch on s_detected_color_mode that sizes the buffer
max_pixel_size(mode) ==
    CASE mode = COLOR_MODE_TRUE_COLOR -> 21
      [] mode = COLOR_MODE_256 -> 13
      [] mode = COLOR_MODE_16 -> 9
      [] OTHER -> 2

\* (size_t)width * max_pixel_size + 32; size_t is wider than int on the
\* modelled builds, so the product does not wrap
buffer_size_per_line(width, mode) == width * max_pixel_size(mode) + 32

\* "\033[0m\n"
ResetLine == <<ESC, "[", "0", "m", LF>>

\* (unsigned char)(fg * alpha_norm + bg * (1.0f - alpha_norm)), alpha_norm =
\* alpha / 255.0f; the drawn alphas are 0 and 255, where the float arithmetic
\* is exact
\* a blend that weighs the background by alpha and the pixel by 255 - alpha
Blend_Swapped(fg, bg, alpha) == (bg * alpha + fg * (255 - alpha)) \div 255

Blend(fg, bg, alpha) == (fg * alpha + bg * (255 - alpha)) \div 255

\* the img_data indices render_image reads for the pixel at idx
PixelReads(idx, channels) ==
    IF channels = 4 THEN {idx, idx + 1, idx + 2, idx + 3} ELSE {idx, idx + 1, idx + 2}

\* the r, g, b render_image hands to format_ansi_color_code
PixelRGB(data, idx, channels, bg, g) ==
    IF channels = 4
    THEN LET alpha == ReadAt(data, idx + 3, g)
         IN  <<Blend(ReadAt(data, idx, g), bg[1], alpha),
               Blend(ReadAt(data, idx + 1, g), bg[2], alpha),
               Blend(ReadAt(data, idx + 2, g), bg[3], alpha)>>
    ELSE <<ReadAt(data, idx, g), ReadAt(data, idx + 1, g), ReadAt(data, idx + 2, g)>>

\* the largest width and height of a rendered buffer
MaxRenderW == 2
MaxRenderH == 2

\* the pixels rendered buffers are made of: white, a grey of the upper ramp,
\* opaque red, transparent black
PixelKinds == {<<255, 255, 255, 255>>, <<250, 250, 250, 255>>,
               <<255, 0, 0, 255>>, <<0, 0, 0, 0>>}

\* the buffer whose even pixels are k1 and odd pixels k2, cut to c channels
MkRenderImage(w, h, c, k1, k2) ==
    [w |-> w, h |-> h, c |-> c,
     data |-> [i \in Samples(w, h, c) |->
                 IF (i \div c) % 2 = 0 THEN k1[(i % c) + 1] ELSE k2[(i % c) + 1]]]

RenderImages == {MkRenderImage(w, h, c, k1, k2) :
                    w \in 1 .. MaxRenderW, h \in 1 .. MaxRenderH, c \in Channels,
                    k1 \in PixelKinds, k2 \in PixelKinds}

\* --bg black, --bg white
Backgrounds == {<<0, 0, 0>>, <<255, 255, 255>>}

\* one environment per outcome of detect_color_support
RenderEnvs == {MkEnv("truecolor", Unset, Unset, Unset, "xterm-256color"),
               MkEnv(Unset, Unset, Unset, Unset, "xterm-256color"),
               MkEnv(Unset, Unset, Unset, Unset, "xterm")}

\* the caches as init_ansi_cache can have left them, or never initialised
RenderCaches == {<<EmptyCache16, EmptyCache256>>,
                 <<init_ansi_cache_16({}), init_ansi_cache_256({})>>,
                 <<init_ansi_cache_16({0, 9}), init_ansi_cache_256({16, 200, 255})>>}

InitRender ==
    /\ s_detected_color_mode = COLOR_MODE_UNKNOWN
    /\ \E caches \in RenderCaches :
          s_ansi_cache_16 = caches[1] /\ s_ansi_cache_256 = caches[2]
    /\ env \in RenderEnvs
    /\ InitTerm
    /\ QuantIdle
    /\ XformIdle
    /\ OthersIdle

\* a caller of render_image may have called detect_color_support before, as
\* main does, or not: render_image is an external function that handles
\* COLOR_MODE_UNKNOWN itself
DetectColorSupport ==
    /\ rn = Idle
    /\ s_detected_color_mode' = detect_color_support(env)
    /\ UNCHANGED <<s_ansi_cache_16, s_ansi_cache_256, env, termVars, rn, notRender>>

RenderEnter ==
    /\ rn = Idle
    /\ \E img \in RenderImages, bg \in Backgrounds, malloc_ok \in BOOLEAN :
          LET size == buffer_size_per_line(img.w, s_detected_color_mode)
          IN  IF size \div max_pixel_size(s_detected_color_mode) < img.w \/ ~malloc_ok
              THEN /\ rn' = [pc |-> "returned", img |-> img, bg |-> bg, size |-> size,
                             entry_mode |-> s_detected_color_mode,
                             y |-> 0, x |-> 0, buf_pos |-> 0, line |-> <<>>, hi |-> 0,
                             px |-> -1, rgb |-> <<0, 0, 0>>, reads |-> {}, out |-> <<>>,
                             fault |-> FALSE]
                   /\ UNCHANGED s_detected_color_mode
              ELSE /\ rn' = [pc |-> "pixels", img |-> img, bg |-> bg, size |-> size,
                             entry_mode |-> s_detected_color_mode,
                             y |-> 0, x |-> 0, buf_pos |-> 0, line |-> <<>>, hi |-> 0,
                             px |-> -1, rgb |-> <<0, 0, 0>>, reads |-> {}, out |-> <<>>,
                             fault |-> FALSE]
                   /\ s_detected_color_mode' =
                         IF s_detected_color_mode = COLOR_MODE_UNKNOWN
                         THEN detect_color_support(env)
                         ELSE s_detected_color_mode
    /\ UNCHANGED <<s_ansi_cache_16, s_ansi_cache_256, env, termVars, notRender>>

Max(a, b) == IF a > b THEN a ELSE b

RenderPixel ==
    /\ rn # Idle
    /\ rn.pc = "pixels"
    /\ rn.x < rn.img.w
    /\ \E g \in GarbageBytes, fault \in BOOLEAN, wild \in WildPointers :
          LET idx == (rn.y * rn.img.w + rn.x) * rn.img.c
              reads == PixelReads(idx, rn.img.c)
              rgb == PixelRGB(rn.img.data, idx, rn.img.c, rn.bg, g)
              res == format_ansi_color_code(rgb[1], rgb[2], rgb[3], s_detected_color_mode,
                                            s_ansi_cache_16, s_ansi_cache_256, wild)
          IN  IF fault /\ ~(reads \subseteq DOMAIN rn.img.data)
              THEN rn' = [rn EXCEPT !.pc = "fault", !.px = idx, !.reads = reads, !.fault = TRUE]
              ELSE rn' = [rn EXCEPT !.px = idx, !.reads = reads, !.rgb = rgb,
                                    !.line = rn.line \o res.text,
                                    !.hi = Max(rn.hi, rn.buf_pos + res.stored),
                                    !.buf_pos = rn.buf_pos + Len(res.text),
                                    !.x = rn.x + 1]
    /\ UNCHANGED <<globalVars, notRender>>

\* the reset sequence and newline, the fwrite of the row, and after the last
\* row the free and fflush
RenderEndRow ==
    /\ rn # Idle
    /\ rn.pc = "pixels"
    /\ rn.x = rn.img.w
    /\ rn' = [rn EXCEPT !.out = Append(rn.out, rn.line \o ResetLine),
                        !.hi = Max(rn.hi, rn.buf_pos + Len(ResetLine) + 1),
                        !.line = <<>>, !.buf_pos = 0, !.x = 0, !.y = rn.y + 1,
                        !.pc = IF rn.y + 1 < rn.img.h THEN "pixels" ELSE "returned"]
    /\ UNCHANGED <<globalVars, notRender>>

NextRender == DetectColorSupport \/ RenderEnter \/ RenderPixel \/ RenderEndRow

SpecRender == InitRender /\ [][NextRender]_vars

\* The colour mode over a run of the process, in every environment: calls of
\* detect_color_support, print_help, and render_image.
InitDetect ==
    /\ InitGlobals
    /\ QuantIdle
    /\ XformIdle
    /\ OthersIdle

\* print_help: printf only
PrintHelp ==
    /\ rn = Idle
    /\ rn' = [pc |-> "returned", out |-> <<"help">>]
    /\ UNCHANGED <<globalVars, notRender>>

NextDetect == DetectColorSupport \/ PrintHelp \/ RenderEnter \/ RenderPixel \/ RenderEndRow

SpecDetect == InitDetect /\ [][NextDetect]_vars

Detected == {COLOR_MODE_16, COLOR_MODE_256, COLOR_MODE_TRUE_COLOR}

\* a step of the process: a call of detect_color_support sets a mode other
\* than Unknown, and a mode other than Unknown is not changed
ModeStep ==
    /\ detect_color_support(env) \in Detected
    /\ s_detected_color_mode' # s_detected_color_mode => s_detected_color_mode' \in Detected
    /\ s_detected_color_mode \in Detected => s_detected_color_mode' = s_detected_color_mode

----------------------------------------------------------------------------
(* Claims about render_image *)

\* C2: for every width and every colour mode render_image can be entered
\* with, the bytes stored into the line buffer for a row (escape texts, reset
\* sequence, newline and terminating NUL) never exceed the allocated
\* width * maxBytesPerPixel + 32, maxBytesPerPixel being the 21/13/9/2 of the
\* mode at the moment the buffer is sized.
C2_LineBufferNotOverrun ==
    rn # Idle =>
        /\ rn.size = rn.img.w * max_pixel_size(rn.entry_mode) + 32
        /\ rn.hi <= rn.size

\* C7: for every channel count in 1..4, every index render_image reads for a
\* pixel is inside [0, width*height*channels) and is one of that pixel's own
\* channels.
C7_PixelReadsOwnChannels ==
    (rn # Idle /\ rn.px >= 0) =>
        /\ rn.reads \subseteq Samples(rn.img.w, rn.img.h, rn.img.c)
        /\ rn.reads \subseteq rn.px .. (rn.px + rn.img.c - 1)


\* the text format_ansi_color_code gives for (r, g, b) in the current mode
Encoding(r, g, b) ==
    format_ansi_color_code(r, g, b, s_detected_color_mode,
                           s_ansi_cache_16, s_ansi_cache_256, NULL).text

\* the 2x1 image (255,0,0,255), (0,0,0,0)
RedThenClear == MkRenderImage(2, 1, 4, <<255, 0, 0, 255>>, <<0, 0, 0, 0>>)

\* C16: for a 4-channel buffer, render_image composites each pixel onto the
\* background so that a pixel with alpha = 255 is encoded exactly as its own
\* RGB and a pixel with alpha = 0 exactly as the background RGB, in every
\* colour mode; for the 2x1 image (255,0,0,255), (0,0,0,0) with black
\* background, cell 0 is the encoding of (255,0,0) and cell 1 that of (0,0,0).
C16_AlphaComposite ==
    /\ (rn # Idle /\ rn.px >= 0 /\ rn.img.c = 4) =>
          LET d == rn.img.data
              alpha == d[rn.px + 3]
          IN  /\ alpha = 255 => rn.rgb = <<d[rn.px], d[rn.px + 1], d[rn.px + 2]>>
              /\ alpha = 0 => rn.rgb = rn.bg
    /\ (rn # Idle /\ rn.pc = "returned" /\ rn.out # <<>> /\ rn.img = RedThenClear
           /\ rn.bg = <<0, 0, 0>>) =>
          rn.out = <<Encoding(255, 0, 0) \o Encoding(0, 0, 0) \o ResetLine>>

\* the 2x1 image was rendered on black in 256-colour mode from a filled cache:
\* red is index 196, black index 16
C16_Witness ==
    /\ rn # Idle
    /\ rn.pc = "returned"
    /\ rn.img = RedThenClear
    /\ rn.bg = <<0, 0, 0>>
    /\ s_detected_color_mode = COLOR_MODE_256
    /\ s_ansi_cache_256 = {}
    /\ rn.out = <<CacheText256(196) \o <<" ">> \o CacheText256(16) \o <<" ">> \o ResetLine>>


\* the characters between ESC [ and m in a colour escape text
CodeChars == {DigitChars[k] : k \in 1 .. 10} \cup {";"}

RECURSIVE CellsFrom(_, _, _)
\* the number of pixel cells (ESC [ code m space) t is made of from position
\* i on, counted from n; -1 when t is not a sequence of cells
CellsFrom(t, i, n) ==
    IF i > Len(t) THEN n
    ELSE IF i + 3 > Len(t) \/ t[i] # ESC \/ t[i + 1] # "[" THEN -1
    ELSE LET ends == {k \in i + 2 .. Len(t) - 1 :
                         /\ t[k] = "m"
                         /\ t[k + 1] = " "
                         /\ \A q \in i + 2 .. k - 1 : t[q] \in CodeChars}
         IN  IF ends = {} THEN -1
             ELSE CellsFrom(t, (CHOOSE k \in ends : \A k2 \in ends : k <= k2) + 2, n + 1)

\* line is width pixel cells, then the reset sequence, then a newline
IsRow(line, width) ==
    /\ Len(line) >= Len(ResetLine)
    /\ SubSeq(line, Len(line) - Len(ResetLine) + 1, Len(line)) = ResetLine
    /\ CellsFrom(SubSeq(line, 1, Len(line) - Len(ResetLine)), 1, 0) = width

White1x1 == {MkRenderImage(1, 1, c, <<255, 255, 255, 255>>, <<255, 255, 255, 255>>) : c \in {3, 4}}

\* C17: for a width x height buffer, render_image performs exactly height
\* writes to the output stream, one per row; each written line consists of
\* exactly width pixel cells (the colour escape text followed by one space),
\* then the reset sequence ESC[0m, then a newline.  In TrueColor mode a 1x1
\* white opaque pixel produces ESC[48;2;255;255;255m, space, ESC[0m, newline.
C17_RowsWritten ==
    /\ (rn # Idle /\ rn.pc \in {"pixels", "returned"}) =>
          /\ Len(rn.out) = rn.y
          /\ \A k \in 1 .. Len(rn.out) : IsRow(rn.out[k], rn.img.w)
    /\ (rn # Idle /\ rn.pc = "returned" /\ rn.y = rn.img.h) => Len(rn.out) = rn.img.h
    /\ (rn # Idle /\ rn.pc = "returned" /\ rn.y = rn.img.h /\ rn.img \in White1x1
           /\ s_detected_color_mode = COLOR_MODE_TRUE_COLOR) =>
          rn.out = <<(<<ESC, "[", "4", "8", ";", "2", ";", "2", "5", "5", ";", "2", "5", "5",
                        ";", "2", "5", "5", "m", " ">> \o ResetLine)>>

----------------------------------------------------------------------------
(* Resampler: resize_image_bilinear.  The float coordinates are modelled   *)
(* as exact fractions: ox = (src_x*new_w + x*src_w) / new_w and            *)
(* oy = (src_y*new_h + y*src_h) / new_h.  The C floats round these; the    *)
(* clamps below bound the neighbour coordinates whatever (int)ox is.       *)

\* the clamp without its upper branch
Clamp_NoUpper(x, limit) == IF x < 0 THEN 0 ELSE x

\* x < 0 ? 0 : (x >= limit ? limit - 1 : x)
Clamp(x, limit) == IF x < 0 THEN 0 ELSE IF x >= limit THEN limit - 1 ELSE x

\* the neighbour coordinates and weight numerators of destination pixel
\* (x, y): x1, x2, y1, y2 after clamping, dx = dxN / new_w, dy = dyN / new_h
Neighbours(x, y, orig_w, orig_h, src_x, src_y, src_w, src_h, new_w, new_h) ==
    LET oxN == src_x * new_w + x * src_w
        oyN == src_y * new_h + y * src_h
        x1 == TruncDiv(oxN, new_w)
        y1 == TruncDiv(oyN, new_h)
        x2 == x1 + 1
        y2 == y1 + 1
    IN  [x1 |-> Clamp(x1, orig_w), y1 |-> Clamp(y1, orig_h),
         x2 |-> Clamp(x2, orig_w), y2 |-> Clamp(y2, orig_h),
         dxN |-> oxN - x1 * new_w, dyN |-> oyN - y1 * new_h]

\* idx11, idx21, idx12, idx22 for channel c
NeighbourIdx(n, orig_w, orig_channels, c) ==
    [idx11 |-> (n.y1 * orig_w + n.x1) * orig_channels + c,
     idx21 |-> (n.y1 * orig_w + n.x2) * orig_channels + c,
     idx12 |-> (n.y2 * orig_w + n.x1) * orig_channels + c,
     idx22 |-> (n.y2 * orig_w + n.x2) * orig_channels + c]

IdxSet(i) == {i.idx11, i.idx21, i.idx12, i.idx22}

\* (unsigned char)(final_val + 0.5f), final_val = num / den with den > 0; a
\* value outside 0..255 does not fit the unsigned char and converts to g
RoundToByte(num, den, g) ==
    LET v == TruncDiv(2 * num + den, 2 * den)
    IN  IF v \in Byte THEN v ELSE g

\* an interpolation whose first weights are 1 instead of 1 - dx
Interpolate_UnitWeight(data, n, i, new_w, new_h, g) ==
    LET val_x1 == ReadAt(data, i.idx11, g) * new_w + ReadAt(data, i.idx21, g) * n.dxN
        val_x2 == ReadAt(data, i.idx12, g) * new_w + ReadAt(data, i.idx22, g) * n.dxN
    IN  RoundToByte(val_x1 * (new_h - n.dyN) + val_x2 * n.dyN, new_w * new_h, g)

\* the sample stored at (x, y, c) of the result
Interpolate(data, n, i, new_w, new_h, g) ==
    LET val_x1 == ReadAt(data, i.idx11, g) * (new_w - n.dxN) + ReadAt(data, i.idx21, g) * n.dxN
        val_x2 == ReadAt(data, i.idx12, g) * (new_w - n.dxN) + ReadAt(data, i.idx22, g) * n.dxN
    IN  RoundToByte(val_x1 * (new_h - n.dyN) + val_x2 * n.dyN, new_w * new_h, g)

\* an argument check that lets a source height of zero or less through
InvalidInput_NoSrcH(data, src_w, src_h, new_w, new_h) ==
    data = NULL \/ new_w <= 0 \/ new_h <= 0 \/ src_w <= 0

\* !img_data || new_w <= 0 || new_h <= 0 || src_w <= 0 || src_h <= 0
InvalidInput(data, src_w, src_h, new_w, new_h) ==
    data = NULL \/ new_w <= 0 \/ new_h <= 0 \/ src_w <= 0 \/ src_h <= 0

\* the calls that return NULL: an argument is rejected or malloc fails
ResizeFails(data, src_w, src_h, new_w, new_h, malloc_ok) ==
    InvalidInput(data, src_w, src_h, new_w, new_h) \/ ~malloc_ok

\* the result is NULL (ok = FALSE) or the new buffer, with the set of
\* img_data indices read
resize_image_bilinear(data, orig_w, orig_h, orig_channels, src_x, src_y, src_w, src_h, new_w, new_h, malloc_ok, g) ==
    IF ResizeFails(data, src_w, src_h, new_w, new_h, malloc_ok)
    THEN [ok |-> FALSE, data |-> NULL, reads |-> {}]
    ELSE LET nb(p) == Neighbours(p[2], p[1], orig_w, orig_h,
                                 src_x, src_y, src_w, src_h, new_w, new_h)
             ix(p) == NeighbourIdx(nb(p), orig_w, orig_channels, p[3])
         IN  [ok |-> TRUE,
              data |-> [k \in Samples(new_w, new_h, orig_channels) |->
                          LET p == LoopAt(k, new_w, orig_channels)
                              n == nb(p)
                          IN  Interpolate(data, n,
                                          NeighbourIdx(n, orig_w, orig_channels, p[3]),
                                          new_w, new_h, g)],
              reads |-> UNION {IdxSet(ix(p)) : p \in Loop(new_w, new_h, orig_channels)}]

\* the largest width and height of a resized source buffer
MaxSrcDim == 2
\* the largest destination width and height
MaxNewDim == 2

\* the source buffers resize is called on
ResizeImages == {MkImage(w, h, c, 1) : w \in 1 .. MaxSrcDim, h \in 1 .. MaxSrcDim, c \in Channels}

InitResize ==
    /\ InitGlobals
    /\ env = MkEnv(Unset, Unset, Unset, Unset, Unset)
    /\ QuantIdle
    /\ orig \in ResizeImages
    /\ image = orig
    /\ steps = <<>>
    /\ xf = Idle
    /\ OthersIdle

\* one call on the buffer, with a source rectangle that may start before the
\* buffer and end after it, and sizes that may be zero; only a rectangle that
\* starts before the buffer gives negative weights, and so values that do not
\* fit an unsigned char
ResizeCall ==
    /\ rs = Idle
    /\ \E src_x \in -1 .. image.w, src_y \in -1 .. image.h,
          src_w \in 0 .. image.w + 1, src_h \in 0 .. image.h + 1,
          new_w \in 0 .. MaxNewDim, new_h \in 0 .. MaxNewDim,
          malloc_ok \in BOOLEAN :
       \E g \in (IF src_x < 0 \/ src_y < 0 THEN GarbageBytes ELSE {0}) :
          LET res == resize_image_bilinear(image.data, image.w, image.h, image.c,
                                           src_x, src_y, src_w, src_h, new_w, new_h,
                                           malloc_ok, g)
          IN  rs' = [op |-> "resize_image_bilinear", img |-> image,
                     src_x |-> src_x, src_y |-> src_y, src_w |-> src_w, src_h |-> src_h,
                     new_w |-> new_w, new_h |-> new_h,
                     ok |-> res.ok, data |-> res.data, reads |-> res.reads]
    /\ UNCHANGED notResize

NextResize == ResizeCall

SpecResize == InitResize /\ [][NextResize]_vars

\* a buffer whose pixels all have the samples px
UniformImage(w, h, c, px) ==
    [w |-> w, h |-> h, c |-> c, data |-> [i \in Samples(w, h, c) |-> px[(i % c) + 1]]]

Red4x4 == UniformImage(4, 4, 3, <<255, 0, 0>>)

UniformImages ==
    {UniformImage(w, h, c, <<7, 200, 100, 255>>) :
        w \in 1 .. MaxSrcDim, h \in 1 .. MaxSrcDim, c \in Channels} \cup {Red4x4}

\* resize called on buffers of one colour
InitResizeUniform ==
    /\ InitGlobals
    /\ env = MkEnv(Unset, Unset, Unset, Unset, Unset)
    /\ QuantIdle
    /\ orig \in UniformImages
    /\ image = orig
    /\ steps = <<>>
    /\ xf = Idle
    /\ OthersIdle

SpecResizeUniform == InitResizeUniform /\ [][NextResize]_vars

----------------------------------------------------------------------------
(* The sizes of resize_image_bilinear.  data_size_64 is a uint64_t and the *)
(* store index an int; numbers wider than an int are modelled by their     *)
(* five digits in base 2^14, least significant first, the last digit       *)
(* holding bits 56 to 63.                                                  *)

\* the range of int
IntMax == 2147483647
IntMin == -IntMax - 1

Limb == 16384
TopLimb == 256

\* (uint64_t)n for an int n >= 0
Wide(n) == <<n % Limb, (n \div Limb) % Limb, n \div (Limb * Limb), 0, 0>>

\* the digits of the number whose columns are cols, modulo 2^64
Carry(cols) ==
    LET c1 == cols[1]
        c2 == cols[2] + c1 \div Limb
        c3 == cols[3] + c2 \div Limb
        c4 == cols[4] + c3 \div Limb
        c5 == cols[5] + c4 \div Limb
    IN  <<c1 % Limb, c2 % Limb, c3 % Limb, c4 % Limb, c5 % TopLimb>>

RECURSIVE ColSum(_, _, _, _)
ColSum(a, b, k, i) == IF i > k THEN 0 ELSE a[i] * b[k + 1 - i] + ColSum(a, b, k, i + 1)

\* a * b and a + b in uint64_t
WideMul(a, b) == Carry([k \in 1 .. 5 |-> ColSum(a, b, k, 1)])
WideAdd(a, b) == Carry([k \in 1 .. 5 |-> a[k] + b[k]])

\* a > b
WideGreater(a, b) == \E k \in 1 .. 5 : a[k] > b[k] /\ \A j \in (k + 1) .. 5 : a[j] = b[j]

\* SIZE_MAX where size_t has 64 bits and where it has 32
SizeBits == {32, 64}
SIZE_MAX(bits) ==
    IF bits = 64 THEN <<Limb - 1, Limb - 1, Limb - 1, Limb - 1, TopLimb - 1>>
    ELSE <<Limb - 1, Limb - 1, 15, 0, 0>>

\* (uint64_t)new_w * new_h * orig_channels
data_size_64(new_w, new_h, orig_channels) ==
    WideMul(WideMul(Wide(new_w), Wide(new_h)), Wide(orig_channels))

\* the value of (y * new_w + x) * orig_channels + c at the last store of the
\* loop, y = new_h - 1, x = new_w - 1, c = orig_channels - 1
LastStoreIndex(new_w, new_h, orig_channels) ==
    WideAdd(WideMul(WideAdd(WideMul(Wide(new_h - 1), Wide(new_w)), Wide(new_w - 1)),
                    Wide(orig_channels)),
            Wide(orig_channels - 1))

\* resize_image_bilinear up to its allocation, and the range of the indices
\* it stores at: the result is NULL or the new buffer, of size bytes
ResizeAlloc(data, orig_channels, src_w, src_h, new_w, new_h, bits, malloc_ok) ==
    IF InvalidInput(data, src_w, src_h, new_w, new_h)
    THEN [ok |-> FALSE, malloc_called |-> FALSE, size |-> Wide(0), last |-> Wide(0)]
    ELSE LET size == data_size_64(new_w, new_h, orig_channels)
         IN  IF WideGreater(size, SIZE_MAX(bits))
             THEN [ok |-> FALSE, malloc_called |-> FALSE, size |-> size, last |-> Wide(0)]
             ELSE IF ~malloc_ok
             THEN [ok |-> FALSE, malloc_called |-> TRUE, size |-> size, last |-> Wide(0)]
             ELSE [ok |-> TRUE, malloc_called |-> TRUE, size |-> size,
                   last |-> LastStoreIndex(new_w, new_h, orig_channels)]

\* destination sizes from the invalid ones to the largest int
AllocDims == {IntMin, -1, 0, 1, 2, 32768, 46341, IntMax}

\* one call with any of the arguments invalid or the destination large
ResizeAllocCall ==
    /\ rs = Idle
    /\ \E data \in {NULL, image.data}, src_w \in {-1, 0, image.w}, src_h \in {-1, 0, image.h},
          new_w \in AllocDims, new_h \in AllocDims, bits \in SizeBits, malloc_ok \in BOOLEAN :
          LET res == ResizeAlloc(data, image.c, src_w, src_h, new_w, new_h, bits, malloc_ok)
          IN  rs' = [op |-> "resize_image_bilinear", img_data |-> data, channels |-> image.c,
                     src_w |-> src_w, src_h |-> src_h, new_w |-> new_w, new_h |-> new_h,
                     bits |-> bits, ok |-> res.ok, malloc_called |-> res.malloc_called,
                     size |-> res.size, last |-> res.last]
    /\ UNCHANGED notResize

NextResizeAlloc == ResizeAllocCall

SpecResizeAlloc == InitResize /\ [][NextResizeAlloc]_vars

----------------------------------------------------------------------------
(* Claims about resize_image_bilinear *)

\* C8: for every source rectangle of positive size, every destination size
\* >= 1x1 and every source buffer >= 1x1, every index read from the source
\* buffer lies in [0, orig_w*orig_h*channels), also when the rectangle
\* reaches or passes the edge of the buffer.
C8_ResizeReadsInBounds ==
    (rs # Idle /\ rs.src_w > 0 /\ rs.src_h > 0 /\ rs.new_w >= 1 /\ rs.new_h >= 1) =>
        rs.reads \subseteq Samples(rs.img.w, rs.img.h, rs.img.c)

\* a resize whose rectangle passes the right and bottom edges has read samples
C8_Witness ==
    /\ rs # Idle
    /\ rs.ok
    /\ rs.src_x + rs.src_w > rs.img.w
    /\ rs.src_y + rs.src_h > rs.img.h
    /\ rs.new_w > 1
    /\ rs.reads # {}

IsUniform(img) == \A i \in DOMAIN img.data : img.data[i] = img.data[i % img.c]

\* C13: resize_image_bilinear exactly preserves a uniform-colour image: if
\* every pixel of the source buffer has the same samples v, then for every
\* source rectangle and every destination size every pixel of the output has
\* exactly the samples v.
C13_UniformPreserved ==
    (rs # Idle /\ rs.ok /\ IsUniform(rs.img)) =>
        \A k \in DOMAIN rs.data : rs.data[k] = rs.img.data[k % rs.img.c]

\* the 4x4 image of (255,0,0) was resized to 2x2 from its whole area, and the
\* result is (255,0,0) at all four pixels
C13_Witness ==
    /\ rs # Idle
    /\ rs.ok
    /\ rs.img = Red4x4
    /\ rs.src_x = 0 /\ rs.src_y = 0 /\ rs.src_w = 4 /\ rs.src_h = 4
    /\ rs.new_w = 2 /\ rs.new_h = 2
    /\ rs.data = UniformImage(2, 2, 3, <<255, 0, 0>>).data

\* the buffer was allocated and the loop has stored its samples
Allocated == rs # Idle /\ rs.ok

\* C19: resize_image_bilinear detects, before allocating, every destination
\* size whose sample count new_w*new_h*channels cannot be represented in the
\* integer types used to size and index the output buffer, and returns
\* failure: no buffer is allocated and then addressed with a size or index
\* that has wrapped around.
C19_NoWrappedIndex ==
    Allocated => /\ ~WideGreater(rs.size, SIZE_MAX(rs.bits))
                 /\ ~WideGreater(rs.last, Wide(IntMax))

\* an argument of the call that the function rejects
Rejected ==
    rs.img_data = NULL \/ rs.new_w <= 0 \/ rs.new_h <= 0 \/ rs.src_w <= 0 \/ rs.src_h <= 0

\* C20: resize_image_bilinear returns NULL without allocating or producing
\* any output buffer whenever the input buffer is null or any of the
\* destination width and height and the source rectangle's width and height
\* is zero or negative.
C20_InvalidInputRejected ==
    (rs # Idle /\ Rejected) => (~rs.ok /\ ~rs.malloc_called)

\* a call whose only invalid argument is a source height of zero has failed
C20_Witness ==
    /\ rs # Idle
    /\ rs.img_data # NULL /\ rs.new_w = 2 /\ rs.new_h = 1 /\ rs.src_w > 0 /\ rs.src_h = 0
    /\ ~rs.ok /\ ~rs.malloc_called

----------------------------------------------------------------------------
(* get_terminal_size.  tty records what the queries answer: the ioctl      *)
(* (ioctl_ok, ws_col, ws_row), atoi of COLUMNS and LINES (Unset when the   *)
(* variable is not set), and the two tput pipes (NoPipe when popen fails,   *)
(* NoParse when fscanf reads no number, else the number read).             *)

MkTty(ok, col, row, columns, lines, tcols, tlines) ==
    [ioctl_ok |-> ok, ws_col |-> col, ws_row |-> row, COLUMNS |-> columns,
     LINES |-> lines, tput_cols |-> tcols, tput_lines |-> tlines]

\* popen("tput ...") and fscanf(fp, "%d", &detected)
Tput(answer, detected) ==
    IF answer = NoPipe THEN detected ELSE IF answer = NoParse THEN 0 ELSE answer[2]

\* the detected width and height before they are cached
DetectTerminal(t) ==
    LET w1 == IF t.ioctl_ok THEN t.ws_col ELSE 0
        h1 == IF t.ioctl_ok THEN t.ws_row ELSE 0
        useEnv == /\ (w1 <= 0 \/ h1 <= 0)
                  /\ IsNum(t.COLUMNS) /\ IsNum(t.LINES)
                  /\ t.COLUMNS[2] > 0 /\ t.LINES[2] > 0
        w2 == IF useEnv THEN t.COLUMNS[2] ELSE w1
        h2 == IF useEnv THEN t.LINES[2] ELSE h1
        useTput == w2 <= 0 \/ h2 <= 0
        w3 == IF useTput THEN Tput(t.tput_cols, w2) ELSE w2
        h3 == IF useTput THEN Tput(t.tput_lines, h2) ELSE h2
    IN  [width |-> IF w3 <= 0 THEN 80 ELSE w3, height |-> IF h3 <= 0 THEN 24 ELSE h3]

\* the width and height get_terminal_size returns and leaves in the cache
get_terminal_size(cached_w, cached_h, t) ==
    IF cached_w > 0 /\ cached_h > 0
    THEN [width |-> cached_w, height |-> cached_h]
    ELSE DetectTerminal(t)

\* the terminals the model draws from
Terminals == {
    Tty80x24,
    MkTty(TRUE, 1, 1, NoEnv, NoEnv, NoPipe, NoPipe),
    MkTty(TRUE, 3, 2, NoEnv, NoEnv, NoPipe, NoPipe),
    MkTty(TRUE, 4, 3, NoEnv, NoEnv, NoPipe, NoPipe),
    MkTty(TRUE, 2, 40, NoEnv, NoEnv, NoPipe, NoPipe),
    MkTty(TRUE, 200, 5, NoEnv, NoEnv, NoPipe, NoPipe),
    MkTty(FALSE, 0, 0, Num(5), Num(4), NoPipe, NoPipe),
    MkTty(FALSE, 0, 0, NoEnv, Num(30), Num(7), NoParse),
    MkTty(TRUE, 0, 6, Num(0), Num(9), NoParse, Num(-3)),
    MkTty(FALSE, 0, 0, NoEnv, NoEnv, NoPipe, NoPipe) }

----------------------------------------------------------------------------
(* DisplaySizer: calculate_display_dimensions.  The floats are modelled as *)
(* exact fractions: the zoom factor is zn / zd, the aspect ratio of the    *)
(* image is w / h, TERMINAL_CHAR_HEIGHT_TO_WIDTH_RATIO is 3 / 2.           *)

\* #define TERMINAL_CHAR_HEIGHT_TO_WIDTH_RATIO 1.5f
RatioNum == 3
RatioDen == 2

\* what a float to int conversion can give when the value is above the range
\* of int (undefined behaviour: INT_MIN on x86, INT_MAX where it saturates)
OutOfRange == {IntMin, IntMax}

\* (int)(x * a / b) for a >= 0 and b > 0: the quotient truncated toward zero
\* when it is in the range of int, else ub above the range and INT_MIN below.
\* |x| = qx * b + rx, so |x| * a / b = qx * a + (rx * a) / b.
FloatToInt(x, a, b, ub) ==
    LET neg == x < 0
        m == IF neg THEN -(x + 1) ELSE x
        r0 == IF neg THEN (m % b) + 1 ELSE m % b
        qx == (m \div b) + (IF r0 = b THEN 1 ELSE 0)
        rx == IF r0 = b THEN 0 ELSE r0
        low == (rx * a) \div b
        fits == a = 0 \/ qx <= (IntMax - low) \div a
    IN  IF fits
        THEN (IF neg THEN -(qx * a + low) ELSE qx * a + low)
        ELSE (IF neg THEN IntMin ELSE ub)

\* terminal_height - 2, and 1 when that is not positive
Usable(terminal_height) == IF terminal_height - 2 <= 0 THEN 1 ELSE terminal_height - 2

\* (int)((cols / image_pixel_aspect_ratio) / TERMINAL_CHAR_HEIGHT_TO_WIDTH_RATIO)
RowsFor(cols, img_w, img_h, ub) == FloatToInt(cols, img_h * RatioDen, img_w * RatioNum, ub)

\* (int)((rows * TERMINAL_CHAR_HEIGHT_TO_WIDTH_RATIO) * image_pixel_aspect_ratio)
ColsFor(rows, img_w, img_h, ub) == FloatToInt(rows, RatioNum * img_w, RatioDen * img_h, ub)

AtLeastOne(v) == IF v <= 0 THEN 1 ELSE v

\* the scaling by width or by height, before any clamping
Scaled(img_w, img_h, zn, zd, terminal_width, usable, ub) ==
    IF img_w * usable * RatioNum > terminal_width * RatioDen * img_h
    THEN LET cols == FloatToInt(terminal_width, zn, zd, ub)
         IN  [cols |-> cols, rows |-> RowsFor(cols, img_w, img_h, ub)]
    ELSE LET rows == FloatToInt(usable, zn, zd, ub)
         IN  [cols |-> ColsFor(rows, img_w, img_h, ub), rows |-> rows]

\* the final clamping without its two clamps
ClampToTerminal_Skip(d, img_w, img_h, terminal_width, usable, ub) == d

\* "Final clamping to ensure it doesn't exceed terminal size after zoom"
ClampToTerminal(d, img_w, img_h, terminal_width, usable, ub) ==
    LET c1 == IF d.cols > terminal_width
              THEN [cols |-> terminal_width,
                    rows |-> AtLeastOne(RowsFor(terminal_width, img_w, img_h, ub))]
              ELSE d
        c2 == IF c1.rows > usable
              THEN [cols |-> AtLeastOne(ColsFor(usable, img_w, img_h, ub)), rows |-> usable]
              ELSE c1
    IN  c2

calculate_display_dimensions(img_orig_width, img_orig_height, zn, zd, terminal_width, terminal_height, ub) ==
    LET usable == Usable(terminal_height)
    IN  IF img_orig_width <= 0 \/ img_orig_height <= 0
        THEN [display_width |-> terminal_width, display_height |-> usable]
        ELSE LET d0 == Scaled(img_orig_width, img_orig_height, zn, zd, terminal_width, usable, ub)
                 d1 == [cols |-> AtLeastOne(d0.cols), rows |-> AtLeastOne(d0.rows)]
                 d2 == ClampToTerminal(d1, img_orig_width, img_orig_height, terminal_width, usable, ub)
             IN  [display_width |-> AtLeastOne(d2.cols), display_height |-> AtLeastOne(d2.rows)]

\* the largest source width and height given to the sizer
MaxImgDim == 6

\* the zoom factors zn / zd the model draws from
Zooms == {<<1, 4>>, <<1, 2>>, <<1, 1>>, <<3, 2>>, <<2, 1>>, <<4, 1>>, <<1073741824, 1>>}

InitDisplay ==
    /\ s_detected_color_mode = COLOR_MODE_UNKNOWN
    /\ s_ansi_cache_16 = EmptyCache16
    /\ s_ansi_cache_256 = EmptyCache256
    /\ env = MkEnv(Unset, Unset, Unset, Unset, Unset)
    /\ s_term_width = 0
    /\ s_term_height = 0
    /\ tty \in Terminals
    /\ QuantIdle
    /\ XformIdle
    /\ OthersIdle

\* a call of get_terminal_size on its own
GetTerminalSize ==
    /\ ds = Idle
    /\ LET t == get_terminal_size(s_term_width, s_term_height, tty)
       IN  s_term_width' = t.width /\ s_term_height' = t.height
    /\ UNCHANGED <<s_detected_color_mode, s_ansi_cache_16, s_ansi_cache_256, env, tty,
                   quantVars, xformVars, rn, rs, ds, mn>>

\* a call of calculate_display_dimensions, which calls get_terminal_size
CalcDisplay ==
    /\ ds = Idle
    /\ \E w \in 0 .. MaxImgDim, h \in 0 .. MaxImgDim, zoom \in Zooms, ub \in OutOfRange :
          LET t == get_terminal_size(s_term_width, s_term_height, tty)
              d == calculate_display_dimensions(w, h, zoom[1], zoom[2], t.width, t.height, ub)
          IN  /\ s_term_width' = t.width
              /\ s_term_height' = t.height
              /\ ds' = [op |-> "calculate_display_dimensions",
                        img_orig_width |-> w, img_orig_height |-> h, zoom |-> zoom,
                        terminal_width |-> t.width, terminal_height |-> t.height,
                        display_width |-> d.display_width,
                        display_height |-> d.display_height]
    /\ UNCHANGED <<s_detected_color_mode, s_ansi_cache_16, s_ansi_cache_256, env, tty,
                   quantVars, xformVars, rn, rs, mn>>

NextDisplay == GetTerminalSize \/ CalcDisplay

SpecDisplay == InitDisplay /\ [][NextDisplay]_vars

----------------------------------------------------------------------------
(* Claims about calculate_display_dimensions *)

DsPositiveInput == ds # Idle /\ ds.img_orig_width > 0 /\ ds.img_orig_height > 0

\* C9 as stated: for positive source dimensions, zoom > 0 and a positive
\* terminal size the width is never above the terminal columns, the height
\* never above terminal rows - 2, and neither is <= 0.
C9_AsStated ==
    DsPositiveInput =>
        /\ ds.display_width <= ds.terminal_width
        /\ ds.display_height <= ds.terminal_height - 2
        /\ ds.display_width > 0
        /\ ds.display_height > 0

\* C9 amended: for positive source dimensions, zoom > 0 and a positive
\* terminal size the width is never above the terminal columns, the height
\* never above the usable rows (terminal rows - 2, and 1 when that is not
\* positive), and neither is <= 0.
C9_DisplayWithinTerminal ==
    DsPositiveInput =>
        /\ ds.display_width <= ds.terminal_width
        /\ ds.display_height <= Usable(ds.terminal_height)
        /\ ds.display_width > 0
        /\ ds.display_height > 0

\* a zoomed-in image on a terminal of one or two rows: the scaled size was
\* above the terminal and the height returned is the floor of 1
C9_Witness ==
    /\ DsPositiveInput
    /\ ds.zoom = <<4, 1>>
    /\ ds.terminal_height <= 2
    /\ ds.display_width = ds.terminal_width
    /\ ds.display_height = 1

----------------------------------------------------------------------------
(* main.  The command line is read one argv entry (and the value that an   *)
(* option takes) per step; then the image is loaded, flipped and rotated,  *)
(* the source rectangle and the display size are computed, and the image   *)
(* is resized and rendered.  The buffer of the pipeline is image, the      *)
(* decoded original is orig, steps lists the transforms called.  The       *)
(* resized buffer is followed by its dimensions only: its samples and the  *)
(* text rendered from them are the subject of the specifications above.    *)

notMain == <<quantVars, xf, rn, rs, ds>>

\* the argv entries the model draws from
OptionTokens == {"--help", "-h", "--version", "-v", "--width", "-w", "--height", "-H",
                 "--zoom", "--offset-x", "--offset-y", "--flip-h", "--flip-v",
                 "--rotate", "--bg"}
FileTokens == {"img.png", "2"}
ValueTokens == {"-90", "0", "2", "90", "180", "2147483647", "0.5",
                "black", "white", "red", "--help"}
\* what argv[i] is drawn from when the loop reads it as an option or a file
ArgTokens == OptionTokens \cup FileTokens

\* the options whose handler reads argv[++i]
TakesValue == {"--width", "-w", "--height", "-H", "--zoom", "--offset-x", "--offset-y",
               "--rotate", "--bg"}

\* atoi: the leading integer of the text, 0 when there is none
atoi(tok) ==
    CASE tok = "-90" -> -90
      [] tok = "2" -> 2
      [] tok = "90" -> 90
      [] tok = "180" -> 180
      [] tok = "2147483647" -> IntMax
      [] OTHER -> 0

\* atof, as a fraction <<numerator, denominator>>
atof(tok) == IF tok = "0.5" THEN <<1, 2>> ELSE <<atoi(tok), 1>>

\* a % b of C: the remainder has the sign of a
CRem(a, b) == a - b * TruncDiv(a, b)

\* a normalization whose wrapping leaves negative angles negative
NormalizeRotate_NoWrap(d) ==
    LET r == IF CRem(d, 90) # 0 THEN d - CRem(d, 90) ELSE d
    IN  CRem(r, 360)

\* --rotate: rounding to a multiple of 90, then wrapping into [0, 360)
NormalizeRotate(d) ==
    LET r == IF CRem(d, 90) # 0 THEN d - CRem(d, 90) ELSE d
    IN  CRem(CRem(r, 360) + 360, 360)

\* the local variables of main before the first argument is read
MainLocals ==
    [pc |-> "args", argc |-> 1, last |-> FALSE, filename |-> NULL,
     opt_target_width |-> 0, opt_target_height |-> 0, cli_zoom_factor |-> <<1, 1>>,
     offset_x |-> 0, offset_y |-> 0, flip_h |-> FALSE, flip_v |-> FALSE,
     rotate_degrees |-> 0, bg |-> <<0, 0, 0>>, i |-> 0,
     src_x |-> 0, src_y |-> 0, src_w |-> 0, src_h |-> 0,
     final_display_width |-> 0, final_display_height |-> 0,
     called |-> {}, out |-> <<>>, log |-> {},
     failed |-> "none", failed_at |-> 0, bg_arg |-> "none",
     s_original_image_data |-> 0, current_img_data |-> 0, rendered_img_data |-> 0,
     heap |-> <<>>]

\* The buffers of main are numbered in the order of their allocation, 0 is
\* NULL; heap lists the allocations ("stbi_load", "malloc"), the reads of a
\* buffer by the next stage ("read") and the releases ("free",
\* "stbi_image_free"), each with the number of its buffer.
NextBuffer(m) ==
    1 + Cardinality({k \in DOMAIN m.heap : m.heap[k][1] \in {"stbi_load", "malloc"}})

\* temp_data = transform(current_img_data, ...) has returned a buffer:
\* if (current_img_data != s_original_image_data) free(current_img_data);
\* current_img_data = temp_data
Replaced(m) ==
    LET temp_data == NextBuffer(m)
        h == m.heap \o <<<<"read", m.current_img_data>>, <<"malloc", temp_data>>>>
    IN  [m EXCEPT !.current_img_data = temp_data,
                  !.heap = IF m.current_img_data # m.s_original_image_data
                           THEN Append(h, <<"free", m.current_img_data>>) ELSE h]

\* resize_image_bilinear has returned rendered_img_data
Resized(m) ==
    LET rendered == NextBuffer(m)
    IN  [m EXCEPT !.rendered_img_data = rendered,
                  !.heap = @ \o <<<<"read", m.current_img_data>>, <<"malloc", rendered>>>>]

\* a cleanup that releases the decoded original only
CleanupFrees_OriginalOnly(m) ==
    [m EXCEPT !.s_original_image_data = 0,
              !.heap = IF m.s_original_image_data # 0
                       THEN Append(@, <<"stbi_image_free", m.s_original_image_data>>) ELSE @]

\* cleanup_and_exit: free(current_img_data) unless it is NULL or the
\* original, then stbi_image_free(s_original_image_data)
CleanupFrees(m) ==
    LET h == IF m.current_img_data # m.s_original_image_data /\ m.current_img_data # 0
             THEN Append(m.heap, <<"free", m.current_img_data>>) ELSE m.heap
    IN  [m EXCEPT !.s_original_image_data = 0,
                  !.heap = IF m.s_original_image_data # 0
                           THEN Append(h, <<"stbi_image_free", m.s_original_image_data>>)
                           ELSE h]

\* a failed stage that goes on to render_image instead of cleanup_and_exit
Abort_ToRender(m, stage, n) ==
    [m EXCEPT !.pc = "render", !.failed = stage, !.failed_at = n]

\* goto cleanup_and_exit after a stage has failed; failed and failed_at record
\* the stage and the number of transforms that had been applied
Abort(m, stage, n) ==
    [m EXCEPT !.pc = "cleanup", !.failed = stage, !.failed_at = n]

\* one iteration of the argument loop on argv[i] = tok; has is i+1 < argc and
\* val is argv[i+1]; bg_arg records which branch the value of the last --bg
\* took: "black", "white", or "unsupported" for the one that warns
ParseOne(m, tok, has, val) ==
    CASE tok \in {"--help", "-h"} ->
            [m EXCEPT !.pc = "cleanup", !.out = Append(@, "help")]
      [] tok \in {"--version", "-v"} ->
            [m EXCEPT !.pc = "cleanup", !.out = Append(@, "PIT v0.5")]
      [] tok \in {"--width", "-w"} ->
            IF has THEN [m EXCEPT !.opt_target_width = atoi(val)] ELSE m
      [] tok \in {"--height", "-H"} ->
            IF has THEN [m EXCEPT !.opt_target_height = atoi(val)] ELSE m
      [] tok = "--zoom" ->
            LET z == IF has THEN atof(val) ELSE m.cli_zoom_factor
            IN  [m EXCEPT !.cli_zoom_factor = IF z[1] <= 0 THEN <<1, 1>> ELSE z]
      [] tok = "--offset-x" ->
            IF has THEN [m EXCEPT !.offset_x = atoi(val)] ELSE m
      [] tok = "--offset-y" ->
            IF has THEN [m EXCEPT !.offset_y = atoi(val)] ELSE m
      [] tok = "--flip-h" -> [m EXCEPT !.flip_h = TRUE]
      [] tok = "--flip-v" -> [m EXCEPT !.flip_v = TRUE]
      [] tok = "--rotate" ->
            LET d == IF has THEN atoi(val) ELSE m.rotate_degrees
            IN  [m EXCEPT !.rotate_degrees = NormalizeRotate(d)]
      [] tok = "--bg" ->
            IF has /\ val = "black" THEN [m EXCEPT !.bg = <<0, 0, 0>>, !.bg_arg = "black"]
            ELSE IF has /\ val = "white"
            THEN [m EXCEPT !.bg = <<255, 255, 255>>, !.bg_arg = "white"]
            ELSE IF has THEN [m EXCEPT !.bg_arg = "unsupported"]
            ELSE m
      [] OTHER ->
            IF m.filename = NULL THEN [m EXCEPT !.filename = <<tok>>] ELSE m

\* whether a + b > limit in int arithmetic; when a + b is above the range of
\* int (undefined behaviour) the sum either wraps to a negative value or is
\* taken by the compiler to be the large value it would be
SumAbove(a, b, limit, wraps) ==
    IF a > IntMax - b THEN ~wraps ELSE a + b > limit

\* "Define Source Rectangle for Resizing (based on zoom and offset)"
SourceRectangle(m, current_img_w, current_img_h, ub, wraps) ==
    LET zoom == m.cli_zoom_factor
        w0 == FloatToInt(current_img_w, zoom[2], zoom[1], ub)
        h0 == FloatToInt(current_img_h, zoom[2], zoom[1], ub)
        src_w == Min(AtLeastOne(w0), current_img_w)
        src_h == Min(AtLeastOne(h0), current_img_h)
        x0 == IF m.offset_x < 0 THEN 0 ELSE m.offset_x
        y0 == IF m.offset_y < 0 THEN 0 ELSE m.offset_y
        x1 == IF SumAbove(x0, src_w, current_img_w, wraps) THEN current_img_w - src_w ELSE x0
        y1 == IF SumAbove(y0, src_h, current_img_h, wraps) THEN current_img_h - src_h ELSE y0
    IN  [src_x |-> IF x1 < 0 THEN 0 ELSE x1, src_y |-> IF y1 < 0 THEN 0 ELSE y1,
         src_w |-> src_w, src_h |-> src_h]

\* "User specified exact dimensions"
UserDimensions(opt_target_width, opt_target_height, src_w, src_h, ub) ==
    LET w0 == IF opt_target_width > 0 THEN opt_target_width ELSE 1
        h0 == IF opt_target_height > 0 THEN opt_target_height ELSE 1
        h1 == IF opt_target_width > 0 /\ opt_target_height <= 0
              THEN FloatToInt(w0, src_h * RatioDen, src_w * RatioNum, ub)
              ELSE h0
        w1 == IF ~(opt_target_width > 0 /\ opt_target_height <= 0)
                 /\ opt_target_height > 0 /\ opt_target_width <= 0
              THEN FloatToInt(h0, src_w * RatioNum, src_h * RatioDen, ub)
              ELSE w0
    IN  [display_width |-> AtLeastOne(w1), display_height |-> AtLeastOne(h1)]

\* the final clamping without its two upper clamps
FinalClamp_NoUpper(d, terminal_width, terminal_height) ==
    [display_width |-> AtLeastOne(d.display_width),
     display_height |-> AtLeastOne(d.display_height)]

\* "Final clamping to ensure it doesn't exceed terminal size"
FinalClamp(d, terminal_width, terminal_height) ==
    LET usable_terminal_height == Usable(terminal_height)
        w == IF d.display_width > terminal_width THEN terminal_width ELSE d.display_width
        h == IF d.display_height > usable_terminal_height
             THEN usable_terminal_height ELSE d.display_height
    IN  [display_width |-> AtLeastOne(w), display_height |-> AtLeastOne(h)]

\* the largest width and height of a decoded image
MaxMainDim == 2
\* the largest number of argv entries, the program name included
MaxArgc == 6

\* what stbi_load can decode: images of one and three channels, and an image
\* without pixels
MainImages == {MkImage(w, h, c, 1) : w \in 1 .. MaxMainDim, h \in 1 .. MaxMainDim, c \in {1, 3}}
                 \cup {[w |-> 0, h |-> 0, c |-> 1, data |-> <<>>]}

\* an image of more than 100 MiB / 5 samples.  Its samples are not
\* enumerated, data holds the first one only: main is given it when no flip
\* and no rotation is asked for, and follows the resized buffer by its
\* dimensions.
LargeImage == [w |-> 4096, h |-> 5121, c |-> 1, data |-> [k \in {0} |-> 1]]

\* what stbi_load can return for the options parsed
Loadable(m) ==
    IF ~m.flip_h /\ ~m.flip_v /\ m.rotate_degrees = 0
    THEN MainImages \cup {LargeImage} ELSE MainImages

MainTerminals == {Tty80x24,
                  MkTty(TRUE, 3, 2, NoEnv, NoEnv, NoPipe, NoPipe),
                  MkTty(FALSE, 0, 0, Num(5), Num(4), NoPipe, NoPipe)}

InitMain ==
    /\ s_detected_color_mode = COLOR_MODE_UNKNOWN
    /\ s_ansi_cache_16 = EmptyCache16
    /\ s_ansi_cache_256 = EmptyCache256
    /\ env = MkEnv(Unset, Unset, Unset, Unset, "xterm-256color")
    /\ s_term_width = 0
    /\ s_term_height = 0
    /\ tty \in MainTerminals
    /\ QuantIdle
    /\ XformIdle
    /\ OthersIdle

\* main is entered: detect_color_support and init_ansi_cache, every malloc of
\* which succeeds here
MainEnter ==
    /\ mn = Idle
    /\ s_detected_color_mode' = detect_color_support(env)
    /\ s_ansi_cache_16' = init_ansi_cache_16({})
    /\ s_ansi_cache_256' = init_ansi_cache_256({})
    /\ mn' = MainLocals
    /\ UNCHANGED <<env, termVars, orig, image, steps, notMain>>

InMain(pc) == mn # Idle /\ mn.pc = pc

\* one iteration of the argument loop
MainParseArg ==
    /\ InMain("args")
    /\ ~mn.last
    /\ mn.argc < MaxArgc
    /\ \E tok \in ArgTokens :
          IF tok \in TakesValue
          THEN \/ /\ mn.argc + 1 < MaxArgc
                  /\ \E val \in ValueTokens :
                        mn' = [ParseOne(mn, tok, TRUE, val) EXCEPT !.argc = @ + 2]
               \/ mn' = [ParseOne(mn, tok, FALSE, tok) EXCEPT !.argc = @ + 1, !.last = TRUE]
          ELSE mn' = [ParseOne(mn, tok, FALSE, tok) EXCEPT !.argc = @ + 1]
    /\ UNCHANGED <<globalVars, orig, image, steps, notMain>>

\* the loop ends: the file name is checked; the estimate of the memory
\* needed is taken from s_original_width, s_original_height and
\* s_original_channels, which are 0 until the image is loaded; out is what
\* is written to stdout, log the warnings written to stderr
MainParsed ==
    /\ InMain("args")
    /\ LET estimated_max_mem == orig.w * orig.h * orig.c * 5
           warned == IF estimated_max_mem > 100 * 1024 * 1024
                     THEN {"Large image detected"} ELSE {}
       IN  mn' = IF mn.filename = NULL
                 THEN [mn EXCEPT !.pc = "cleanup", !.out = Append(@, "help")]
                 ELSE [mn EXCEPT !.pc = "load", !.log = @ \cup warned]
    /\ UNCHANGED <<globalVars, orig, image, steps, notMain>>

\* stbi_load and the validation of the dimensions
MainLoad ==
    /\ InMain("load")
    /\ \/ /\ mn' = Abort(mn, "stbi_load", 0)
          /\ UNCHANGED <<orig, image>>
       \/ \E img \in Loadable(mn) :
             LET m == [mn EXCEPT !.s_original_image_data = 1,
                                 !.heap = Append(@, <<"stbi_load", 1>>)]
             IN  /\ orig' = img
                 /\ IF img.w <= 0 \/ img.h <= 0
                    THEN mn' = Abort(m, "dimensions", 0) /\ UNCHANGED image
                    ELSE /\ mn' = [m EXCEPT !.pc = "flip_h", !.current_img_data = 1]
                         /\ image' = img
    /\ UNCHANGED <<globalVars, steps, notMain>>

\* one call of a transform on the current buffer: NULL when malloc fails, a
\* fault or samples of garbage when it reads outside its input
MainTransform(name, res, next, i) ==
    \/ /\ mn' = Abort(mn, name, Len(steps))
       /\ UNCHANGED <<image, steps>>
    \/ /\ ~(res.reads \subseteq DOMAIN image.data)
       /\ mn' = [mn EXCEPT !.pc = "fault"]
       /\ steps' = Append(steps, name)
       /\ UNCHANGED image
    \/ /\ image' = [w |-> res.w, h |-> res.h, c |-> res.c, data |-> res.data]
       /\ steps' = Append(steps, name)
       /\ mn' = [Replaced(mn) EXCEPT !.pc = next, !.i = i]

MainFlipH ==
    /\ InMain("flip_h")
    /\ IF mn.flip_h
       THEN MainTransform("flip_image_horizontal",
                          flip_image_horizontal(image.data, image.w, image.h, image.c, 0),
                          "flip_v", 0)
       ELSE mn' = [mn EXCEPT !.pc = "flip_v"] /\ UNCHANGED <<image, steps>>
    /\ UNCHANGED <<globalVars, orig, notMain>>

MainFlipV ==
    /\ InMain("flip_v")
    /\ IF mn.flip_v
       THEN MainTransform("flip_image_vertical",
                          flip_image_vertical(image.data, image.w, image.h, image.c, 0),
                          "rotate", 0)
       ELSE mn' = [mn EXCEPT !.pc = "rotate"] /\ UNCHANGED <<image, steps>>
    /\ UNCHANGED <<globalVars, orig, notMain>>

\* the rotation: one call of rotate_image_90_cw per step of the loop, or the
\* one call of rotate_image_180
MainRotate ==
    /\ InMain("rotate")
    /\ IF mn.rotate_degrees \in {90, 270} /\ mn.i < mn.rotate_degrees \div 90
       THEN \E g \in GarbageBytes :
               MainTransform("rotate_image_90_cw",
                             rotate_image_90_cw(image.data, image.w, image.h, image.c, g),
                             "rotate", mn.i + 1)
       ELSE IF mn.rotate_degrees = 180
       THEN MainTransform("rotate_image_180",
                          rotate_image_180(image.data, image.w, image.h, image.c, 0),
                          "size", 0)
       ELSE mn' = [mn EXCEPT !.pc = "size"] /\ UNCHANGED <<image, steps>>
    /\ UNCHANGED <<globalVars, orig, notMain>>

\* the source rectangle and the final display dimensions
MainSize ==
    /\ InMain("size")
    /\ \E ub \in OutOfRange, wraps \in BOOLEAN :
          LET src == SourceRectangle(mn, image.w, image.h, ub, wraps)
              t == get_terminal_size(s_term_width, s_term_height, tty)
              d == IF mn.opt_target_width > 0 \/ mn.opt_target_height > 0
                   THEN UserDimensions(mn.opt_target_width, mn.opt_target_height,
                                       src.src_w, src.src_h, ub)
                   ELSE calculate_display_dimensions(src.src_w, src.src_h, 1, 1,
                                                     t.width, t.height, ub)
              final == FinalClamp(d, t.width, t.height)
          IN  /\ s_term_width' = t.width
              /\ s_term_height' = t.height
              /\ mn' = [mn EXCEPT !.pc = "resize",
                                  !.src_x = src.src_x, !.src_y = src.src_y,
                                  !.src_w = src.src_w, !.src_h = src.src_h,
                                  !.final_display_width = final.display_width,
                                  !.final_display_height = final.display_height]
    /\ UNCHANGED <<s_detected_color_mode, s_ansi_cache_16, s_ansi_cache_256, env, tty,
                   orig, image, steps, notMain>>

\* the call of resize_image_bilinear
MainResize ==
    /\ InMain("resize")
    /\ \E malloc_ok \in BOOLEAN :
          LET failed == ResizeFails(image.data, mn.src_w, mn.src_h,
                                    mn.final_display_width, mn.final_display_height,
                                    malloc_ok)
              m == [mn EXCEPT !.called = @ \cup {"resize_image_bilinear"}]
          IN  mn' = IF failed THEN Abort(m, "resize_image_bilinear", Len(steps))
                    ELSE [Resized(m) EXCEPT !.pc = "render"]
    /\ UNCHANGED <<globalVars, orig, image, steps, notMain>>

\* the call of render_image on the resized buffer, which faults or not when a
\* pixel is read outside the buffer, and free(rendered_img_data)
MainRender ==
    /\ InMain("render")
    /\ LET w == mn.final_display_width
           h == mn.final_display_height
           last == (w * h - 1) * image.c
           outside == ~(PixelReads(last, image.c) \subseteq Samples(w, h, image.c))
       IN  \E fault \in (IF outside THEN BOOLEAN ELSE {FALSE}) :
              mn' = [mn EXCEPT !.pc = IF fault THEN "fault" ELSE "cleanup",
                               !.called = @ \cup {"render_image"},
                               !.out = Append(@, "image"),
                               !.heap = @ \o <<<<"read", mn.rendered_img_data>>>>
                                          \o (IF fault THEN <<>>
                                              ELSE <<<<"free", mn.rendered_img_data>>>>)]
    /\ UNCHANGED <<globalVars, orig, image, steps, notMain>>

\* cleanup_and_exit
MainCleanup ==
    /\ InMain("cleanup")
    /\ image' = NoImage
    /\ orig' = NoImage
    /\ s_ansi_cache_16' = EmptyCache16
    /\ s_ansi_cache_256' = EmptyCache256
    /\ mn' = [CleanupFrees(mn) EXCEPT !.pc = "done"]
    /\ UNCHANGED <<s_detected_color_mode, env, termVars, steps, notMain>>

NextMain ==
    \/ MainEnter
    \/ MainParseArg
    \/ MainParsed
    \/ MainLoad
    \/ MainFlipH
    \/ MainFlipV
    \/ MainRotate
    \/ MainSize
    \/ MainResize
    \/ MainRender
    \/ MainCleanup

SpecMain == InitMain /\ [][NextMain]_vars

----------------------------------------------------------------------------
(* Claims about main *)

\* C10: for every combination of --width and --height and every zoom factor,
\* the final display width and height that main passes to
\* resize_image_bilinear and render_image satisfy 1 <= width <= terminal
\* columns and 1 <= height <= usable terminal rows (terminal rows minus 2,
\* floored at 1).
C10_FinalDimensionsWithinTerminal ==
    (mn # Idle /\ mn.called # {}) =>
        /\ 1 <= mn.final_display_width
        /\ mn.final_display_width <= DetectTerminal(tty).width
        /\ 1 <= mn.final_display_height
        /\ mn.final_display_height <= Usable(DetectTerminal(tty).height)

\* --width above the terminal columns and --height above its rows were both
\* given, and the image was rendered at the size of the terminal
C10_Witness ==
    /\ mn # Idle
    /\ mn.opt_target_width > DetectTerminal(tty).width
    /\ mn.opt_target_height > DetectTerminal(tty).height
    /\ "render_image" \in mn.called
    /\ mn.final_display_width = DetectTerminal(tty).width
    /\ mn.final_display_height = Usable(DetectTerminal(tty).height)

\* C11: for every pan offset, every zoom factor > 0 and every current image
\* size w >= 1, h >= 1, the source rectangle main passes to
\* resize_image_bilinear satisfies src_w >= 1, src_h >= 1, src_x >= 0,
\* src_y >= 0, src_x + src_w <= w and src_y + src_h <= h.
C11_SourceRectangleInside ==
    (mn # Idle /\ mn.pc \in {"resize", "render"}) =>
        /\ mn.src_w >= 1
        /\ mn.src_h >= 1
        /\ mn.src_x >= 0
        /\ mn.src_y >= 0
        /\ mn.src_x <= image.w - mn.src_w
        /\ mn.src_y <= image.h - mn.src_h

\* a stage of the pipeline has failed
StageFailed == mn # Idle /\ mn.failed # "none"

\* C21: if any pipeline stage in main fails (image load, dimension
\* validation, a flip, a rotation or resize), no later stage is executed,
\* render_image is never called and nothing is written to the output stream:
\* control goes directly to cleanup.
C21_FailureGoesToCleanup ==
    StageFailed =>
        /\ mn.pc \in {"cleanup", "done"}
        /\ Len(steps) = mn.failed_at
        /\ "render_image" \notin mn.called
        /\ (mn.failed # "resize_image_bilinear" => mn.called = {})
        /\ mn.out = <<>>

\* the second of the three rotations of --rotate 270 failed after a flip, and
\* main has returned
C21_Witness ==
    /\ StageFailed
    /\ mn.failed = "rotate_image_90_cw"
    /\ mn.rotate_degrees = 270
    /\ steps = <<"flip_image_horizontal", "rotate_image_90_cw">>
    /\ mn.pc = "done"

\* the number of calls of the transform name that have returned a buffer
Applied(name) == Cardinality({k \in DOMAIN steps : steps[k] = name})

\* the values of --rotate the normalization is computed for
MaxDegrees == 725
RotateValues == (-MaxDegrees .. MaxDegrees) \cup {-IntMax, IntMax}

\* the flips and rotations are over: main is at the source rectangle or later
Transformed_All == mn # Idle /\ mn.pc \in {"size", "resize", "render"}

\* C23: for every integer value d given to --rotate, normalization leaves
\* rotate_degrees in {0, 90, 180, 270} (a multiple of 90 wrapped into
\* [0,360)), and the pipeline then applies rotate_image_90_cw exactly once for
\* 90 and exactly 3 times for 270, rotate_image_180 exactly once for 180, and
\* no rotation for 0.
C23_RotationNormalized ==
    /\ (mn # Idle /\ mn.argc = 1) =>
          \A d \in RotateValues :
             /\ NormalizeRotate(d) \in {0, 90, 180, 270}
             /\ NormalizeRotate(d) = (d - CRem(d, 90)) % 360
    /\ mn # Idle => mn.rotate_degrees \in {0, 90, 180, 270}
    /\ Transformed_All =>
          /\ Applied("rotate_image_90_cw") =
                 (IF mn.rotate_degrees = 90 THEN 1 ELSE IF mn.rotate_degrees = 270 THEN 3 ELSE 0)
          /\ Applied("rotate_image_180") = (IF mn.rotate_degrees = 180 THEN 1 ELSE 0)

\* --rotate -90 was normalized to 270 and the buffer has been rotated three
\* times before it is rendered
C23_Witness ==
    /\ mn # Idle
    /\ mn.pc = "render"
    /\ mn.rotate_degrees = 270
    /\ steps = <<"rotate_image_90_cw", "rotate_image_90_cw", "rotate_image_90_cw">>

\* C24: after parsing any sequence of command-line options, if the last --bg
\* option names an unrecognized colour (anything other than black or white),
\* the background colour used for rendering is black (0,0,0), whatever --bg
\* options preceded it.
C24_UnsupportedBackgroundIsBlack ==
    (mn # Idle /\ mn.pc = "render" /\ mn.bg_arg = "unsupported") => mn.bg = <<0, 0, 0>>

\* the positions of heap where buffer b is allocated, released and read
Allocs(b) == {k \in DOMAIN mn.heap : mn.heap[k] \in {<<"stbi_load", b>>, <<"malloc", b>>}}
Frees(b) == {k \in DOMAIN mn.heap : mn.heap[k] \in {<<"free", b>>, <<"stbi_image_free", b>>}}
Reads(b) == {k \in DOMAIN mn.heap : mn.heap[k] = <<"read", b>>}

\* the buffers main has obtained
Buffers == {mn.heap[k][2] : k \in DOMAIN mn.heap}

\* C25: on every execution path of main, each buffer allocated by a transform
\* or by resize is freed exactly once, the decoded original buffer is
\* released exactly once by stbi_image_free and never by free, no buffer is
\* read after it has been freed, and no allocated buffer remains unfreed when
\* main returns.
C25_BuffersReleasedOnce ==
    mn # Idle =>
        /\ \A b \in Buffers :
              /\ Cardinality(Allocs(b)) = 1
              /\ Cardinality(Frees(b)) <= 1
              /\ \A f \in Frees(b) :
                    /\ \A a \in Allocs(b) : a < f
                    /\ \A r \in Reads(b) : r < f
                    /\ mn.heap[f][1] = (IF b = 1 THEN "stbi_image_free" ELSE "free")
        /\ mn.pc = "done" => \A b \in Buffers : Cardinality(Frees(b)) = 1

\* main has returned after both flips, three rotations, the resize and the
\* rendering: seven buffers were allocated and each is released
C25_Witness ==
    /\ mn # Idle
    /\ mn.pc = "done"
    /\ "render_image" \in mn.called
    /\ Len(steps) = 5
    /\ Buffers = 1 .. 7
    /\ \A b \in Buffers : Cardinality(Frees(b)) = 1

\* main is at cleanup_and_exit, after which nothing is logged, and the image
\* it loaded has width*height*channels*5 above 100 MiB
LargeLoaded ==
    /\ mn # Idle
    /\ mn.pc = "cleanup"
    /\ orig.w * orig.h * orig.c * 5 > 100 * 1024 * 1024

\* C26: whenever the image that main loads has width*height*channels*5
\* greater than 100 MiB (100*1024*1024 bytes), the 'Large image detected'
\* warning is logged during that run.
C26_LargeImageWarned == LargeLoaded => "Large image detected" \in mn.log

====
